---- MODULE Spec2Model ----
(***************************************************************************)
(* Model of the chronos kernel bring-up layer: GDT/TSS and IDT             *)
(* construction, the init sequence, the PIC-driven timer and keyboard      *)
(* handlers, the breakpoint and double-fault handlers, the VGA and serial  *)
(* print paths with their spin locks, and the QEMU test runner.            *)
(*                                                                         *)
(* Execution is one CPU: a stack of frames, the bottom one being _start    *)
(* and every other one an interrupt or exception handler that preempted    *)
(* the frame below it.  Only the top frame runs.                           *)
(***************************************************************************)
EXTENDS Integers, Sequences, FiniteSets, Bags, TLC

(***************************************************************************)
(* Bounds of the model.                                                    *)
(***************************************************************************)
MaxTimerFirings == 2
MaxKeyFirings == 2
MaxCalls == 3

(***************************************************************************)
(* Program constants.                                                      *)
(***************************************************************************)
PIC_1_OFFSET == 32
PIC_2_OFFSET_Overlap == PIC_1_OFFSET + 4
PIC_2_OFFSET == PIC_1_OFFSET + 8
DOUBLE_FAULT_IST_INDEX == 0
PAGE == 4096
STACK_SIZE == PAGE * 5
BREAKPOINT_VECTOR == 3
DOUBLE_FAULT_VECTOR == 8
PICS_PER_CHIP == 8
TIMER_IRQ == 0
KEYBOARD_IRQ == 1
IST_SLOTS == 7
Success == 16
Failed == 17
KERNEL_CODE_SELECTOR == 8
TSS_SELECTOR == 16
BUFFER_HEIGHT == 25
BUFFER_WIDTH == 80
NEWLINE == 10
BLANK == 32
FIRST_PRINTABLE == 32
LAST_PRINTABLE == 126
REPLACEMENT == 254

\* InterruptIndex: Timer = PIC_1_OFFSET, Keyboard follows it.
InterruptIndex(name) ==
    IF name = "Timer" THEN PIC_1_OFFSET ELSE PIC_1_OFFSET + 1

\* The three ways the crate is built: the kernel binary, the kernel binary
\* under cfg(test), and the library under cfg(test).
Builds == {"kernel", "maintest", "libtest"}

\* Link-time addresses the static STACK buffer of the TSS may get.
StackStarts == {8192, 65536}

\* The test list the harness hands to test_runner in each build.
Tests(b) == IF b = "libtest" THEN <<"test_breakpoint_exception">> ELSE << >>

\* Vector offsets of the two chips before ChainedPics::initialize remaps
\* them: the first chip sits inside the CPU-exception range.
PowerOnOffsets == <<8, 112>>

LockNames == {"WRITER", "SERIAL1", "PICS", "KEYBOARD"}

\* Scancodes the keyboard port may deliver: slash (keypad divide after the
\* prefix) down and up, the extended prefix 0xE0, F1 down, and a code no key
\* maps to.
Scancodes == {53, 181, 224, 59, 127}

VARIABLES
    build,       \* which build is running
    stackStart,  \* address of the static STACK buffer
    stack,       \* frames, bottom = _start, top = running context
    intEnabled,  \* the CPU interrupt flag (RFLAGS.IF)
    locks,       \* spin::Mutex holder per lock: frame index, 0 = free
    tss,         \* lazy static TSS
    gdt,         \* lazy static GDT with its selectors
    idt,         \* lazy static IDT
    cpu,         \* table registers of the CPU: GDTR, CS, TR, IDTR
    pics,        \* ChainedPics behind PICS, and the offsets the chips use
    kbState,     \* scancode decoder state behind KEYBOARD
    vgaOut,      \* what was written through WRITER, as a bag of texts
    serialOut,   \* what was written through SERIAL1
    eoiLog,      \* bag of notify_end_of_interrupt calls with their commands
    exitPort,    \* values written to port 0xf4
    initLog,     \* bring-up steps in the order they ran
    timerFired,  \* timer interrupts delivered
    timerDone,   \* timer handler invocations that returned
    keyFired,    \* keyboard interrupts delivered
    testIdx,     \* tests started by test_runner
    ackCall,     \* a call of notify_end_of_interrupt taken by itself
    writer,      \* the vga_buffer Writer taken by itself, with its buffer
    wlog         \* the calls made on that Writer and the loop of write_string

\* The state of the units that are also exercised by themselves, outside
\* the run of the kernel.
units == <<ackCall, writer, wlog>>

\* The state of the running kernel.
kernel == <<build, stackStart, stack, intEnabled, locks, tss, gdt, idt, cpu,
            pics, kbState, vgaOut, serialOut, eoiLog, exitPort,
            initLog, timerFired, timerDone, keyFired, testIdx>>

vars == <<kernel, units>>

tables == <<tss, gdt, idt>>
counters == <<timerFired, timerDone, keyFired>>
outputs == <<vgaOut, serialOut, eoiLog, exitPort>>

(***************************************************************************)
(* Frames.                                                                 *)
(***************************************************************************)
NewFrame(ctx, pc, vec, iflag, rsp) ==
    [ctx |-> ctx, pc |-> pc, call |-> "", saved |-> FALSE,
     rflagsIF |-> iflag, vector |-> vec, istStack |-> rsp,
     reads |-> 0, emitted |-> 0, eois |-> 0,
     scancode |-> 0, from |-> "", outcome |-> ""]

Depth == Len(stack)
Top == stack[Depth]
SetTop(f) == [stack EXCEPT ![Depth] = f]
At(pcs) == Top.pc \in pcs /\ Top.call = ""

IrqHandlers == {"timer_interrupt_handler", "keyboard_interrupt_handler"}
Handlers == IrqHandlers \cup {"breakpoint_handler", "double_fault_handler"}

OnStack(ctx) == \E i \in 1..Depth : stack[i].ctx = ctx

(***************************************************************************)
(* Control flow: the statement that follows each statement.                *)
(***************************************************************************)
StartPc(b) == IF b = "libtest" THEN "init_gdt" ELSE "hello"

AfterInit(b) == IF b = "kernel" THEN "yay" ELSE "tr_running"

AfterTests(b) == IF b = "libtest" THEN "hlt_loop" ELSE "yay"

PanicEntry(b) == IF b = "kernel" THEN "panic_println" ELSE "tp_failed"

\* chronos::init: the four bring-up steps in their order (mutants: interrupts
\* are enabled before the PICs are initialized; the IDT is loaded last,
\* after interrupts are enabled).
InitStepAfter_StiBeforePics(pc) ==
    CASE pc = "init_gdt"       -> "init_idt"
      [] pc = "init_idt"       -> "init_sti"
      [] pc = "init_sti"       -> "init_pics_lock"
      [] pc = "init_pics_lock" -> "init_pics"
      [] pc = "init_pics"      -> AfterInit(build)
InitStepAfter_IdtLast(pc) ==
    CASE pc = "init_gdt"       -> "init_pics_lock"
      [] pc = "init_pics_lock" -> "init_pics"
      [] pc = "init_pics"      -> "init_sti"
      [] pc = "init_sti"       -> "init_idt"
      [] pc = "init_idt"       -> AfterInit(build)
InitStepAfter(pc) ==
    CASE pc = "init_gdt"       -> "init_idt"
      [] pc = "init_idt"       -> "init_pics_lock"
      [] pc = "init_pics_lock" -> "init_pics"
      [] pc = "init_pics"      -> "init_sti"
      [] pc = "init_sti"       -> AfterInit(build)

InitPcs == {"init_gdt", "init_idt", "init_pics_lock", "init_pics", "init_sti"}

\* The two exception handlers: breakpoint_handler returns after its report,
\* double_fault_handler panics and the panic handlers never return
\* (mutants: the breakpoint handler halts; the panic handlers return).
ExceptionStepAfter_BreakpointHalts(pc) ==
    CASE pc = "bp_print"       -> "hlt_loop"
      [] pc = "df_panic"       -> PanicEntry(build)
      [] pc = "panic_println"  -> "loop"
      [] pc = "tp_failed"      -> "tp_error"
      [] pc = "tp_error"       -> "tp_exit"
      [] pc = "tp_exit"        -> "hlt_loop"
ExceptionStepAfter_PanicReturns(pc) ==
    CASE pc = "bp_print"       -> "ret"
      [] pc = "df_panic"       -> PanicEntry(build)
      [] pc = "panic_println"  -> "ret"
      [] pc = "tp_failed"      -> "tp_error"
      [] pc = "tp_error"       -> "tp_exit"
      [] pc = "tp_exit"        -> "ret"
ExceptionStepAfter(pc) ==
    CASE pc = "bp_print"       -> "ret"
      [] pc = "df_panic"       -> PanicEntry(build)
      [] pc = "panic_println"  -> "loop"
      [] pc = "tp_failed"      -> "tp_error"
      [] pc = "tp_error"       -> "tp_exit"
      [] pc = "tp_exit"        -> "hlt_loop"

ExceptionPcs == {"bp_print", "df_panic", "panic_println", "tp_failed",
                 "tp_error", "tp_exit"}

\* timer_interrupt_handler: its statements in their order, the tick output
\* and then the acknowledgment under the PICS guard (mutant: the
\* acknowledgment comes first).
TimerBody_AckFirst == <<"t_eoi_lock", "t_eoi", "t_print", "ret">>
TimerBody == <<"t_print", "t_eoi_lock", "t_eoi", "ret">>

TimerPcs == {"t_print", "t_eoi_lock", "t_eoi"}

TimerStepAfter(pc) ==
    TimerBody[(CHOOSE k \in 1..(Len(TimerBody) - 1) : TimerBody[k] = pc) + 1]

Succ(pc) ==
    CASE pc \in InitPcs        -> InitStepAfter(pc)
      [] pc \in ExceptionPcs   -> ExceptionStepAfter(pc)
      [] pc \in TimerPcs       -> TimerStepAfter(pc)
      [] pc = "hello"          -> "init_gdt"
      [] pc = "yay"            -> "loop"
      [] pc = "tr_running"     -> "tr_loop"
      [] pc = "run_name"       -> "run_call"
      [] pc = "run_call"       -> "run_ok"
      [] pc = "run_ok"         -> "tr_loop"
      [] pc = "tr_exit"        -> AfterTests(build)
      [] pc = "k_lock"         -> "k_read"
      [] pc = "k_print"        -> "k_eoi_lock"
      [] pc = "k_eoi_lock"     -> "k_eoi"
      [] pc = "k_eoi"          -> "ret"
      [] OTHER                 -> pc

HandlerEntry(h) ==
    CASE h = "timer_interrupt_handler"    -> TimerBody[1]
      [] h = "keyboard_interrupt_handler" -> "k_lock"
      [] h = "breakpoint_handler"         -> "bp_print"
      [] h = "double_fault_handler"       -> "df_panic"

\* Statements that are print!/println! and what they print.
VgaPcs == {"hello", "yay", "t_print", "k_print", "bp_print", "panic_println"}

\* Statements that are serial_print!/serial_println!.
SerialPcs == {"tr_running", "run_name", "run_ok", "tp_failed", "tp_error"}

Text(f) ==
    CASE f.pc = "hello"         -> "Hello World!"
      [] f.pc = "yay"           -> "It didnt crash yay"
      [] f.pc = "t_print"       -> "."
      [] f.pc = "k_print"       -> f.outcome
      [] f.pc = "bp_print"      -> "EXCEPTION: BREAKPOINT"
      [] f.pc = "panic_println" -> "EXCEPTION: DOUBLE FAULT"
      [] f.pc = "tr_running"    -> "Running tests"
      [] f.pc = "run_name"      -> "test name"
      [] f.pc = "run_ok"        -> "[ok]"
      [] f.pc = "tp_failed"     -> "[failed]"
      [] f.pc = "tp_error"      -> "Error: EXCEPTION: DOUBLE FAULT"
      [] OTHER                  -> ""

(***************************************************************************)
(* Descriptor tables.                                                      *)
(***************************************************************************)
Missing == [handler |-> "null", ist |-> 0]

\* Entry::set_handler_fn: a present entry with no stack switch.
SetHandlerFn(h) == [handler |-> h, ist |-> 0]

\* EntryOptions::set_stack_index: the hardware field holds index + 1,
\* 0 meaning "stay on the current stack".
SetStackIndex(e, index) == [e EXCEPT !.ist = index + 1]

\* The IST slot the CPU switches to for an entry; -1 = no switch.
StackIndexOf(e) == e.ist - 1

IdtEntry(v) == IF v \in DOMAIN idt.entries THEN idt.entries[v] ELSE Missing

\* (mutant: the slot holds the start of the buffer, not its end.)
BuildTSS_UsesStackStart ==
    [built |-> TRUE,
     ist |-> [i \in 0..(IST_SLOTS - 1) |->
                 IF i = DOUBLE_FAULT_IST_INDEX THEN stackStart ELSE 0]]
BuildTSS ==
    [built |-> TRUE,
     ist |-> [i \in 0..(IST_SLOTS - 1) |->
                 IF i = DOUBLE_FAULT_IST_INDEX
                 THEN stackStart + STACK_SIZE ELSE 0]]

BuildGDT ==
    [built |-> TRUE,
     entries |-> <<"null", "kernel_code_segment", "tss_low", "tss_high">>,
     code_selector |-> KERNEL_CODE_SELECTOR,
     tss_selector |-> TSS_SELECTOR]

\* (mutant: the double-fault entry is left without a stack index.)
BuildIDT_NoStackIndex ==
    [built |-> TRUE,
     entries |->
        (BREAKPOINT_VECTOR :> SetHandlerFn("breakpoint_handler"))
        @@ (DOUBLE_FAULT_VECTOR :> SetHandlerFn("double_fault_handler"))
        @@ (InterruptIndex("Timer") :>
              SetHandlerFn("timer_interrupt_handler"))
        @@ (InterruptIndex("Keyboard") :>
              SetHandlerFn("keyboard_interrupt_handler"))]
\* (mutant: the timer entry is given the double-fault stack as well.)
BuildIDT_TimerOnIst ==
    [built |-> TRUE,
     entries |->
        (BREAKPOINT_VECTOR :> SetHandlerFn("breakpoint_handler"))
        @@ (DOUBLE_FAULT_VECTOR :>
              SetStackIndex(SetHandlerFn("double_fault_handler"),
                            DOUBLE_FAULT_IST_INDEX))
        @@ (InterruptIndex("Timer") :>
              SetStackIndex(SetHandlerFn("timer_interrupt_handler"),
                            DOUBLE_FAULT_IST_INDEX))
        @@ (InterruptIndex("Keyboard") :>
              SetHandlerFn("keyboard_interrupt_handler"))]
BuildIDT ==
    [built |-> TRUE,
     entries |->
        (BREAKPOINT_VECTOR :> SetHandlerFn("breakpoint_handler"))
        @@ (DOUBLE_FAULT_VECTOR :>
              SetStackIndex(SetHandlerFn("double_fault_handler"),
                            DOUBLE_FAULT_IST_INDEX))
        @@ (InterruptIndex("Timer") :>
              SetHandlerFn("timer_interrupt_handler"))
        @@ (InterruptIndex("Keyboard") :>
              SetHandlerFn("keyboard_interrupt_handler"))]

\* The stack the CPU runs a handler on: the IST slot, or 0 for the current one.
HandlerStack(e) ==
    IF e.ist = 0 \/ ~tss.built THEN 0 ELSE tss.ist[StackIndexOf(e)]

(***************************************************************************)
(* Initial state: the bootloader jumps to _start with interrupts off, no   *)
(* lazy static built, and the PICs at their power-on vector offsets.       *)
(***************************************************************************)
\* The Writer of the unit before its construction.
NoWriter == [built |-> FALSE, column_position |-> 0, buffer |-> << >>,
             cells |-> {}]

\* No call of notify_end_of_interrupt made yet.
NoCall == [id |-> 0, sent |-> << >>, done |-> FALSE]

Init ==
    /\ build \in Builds
    /\ stackStart \in StackStarts
    /\ stack = <<NewFrame("_start", StartPc(build), 0, FALSE, 0)>>
    /\ intEnabled = FALSE
    /\ locks = [l \in LockNames |-> 0]
    /\ tss = [built |-> FALSE, ist |-> [i \in 0..(IST_SLOTS - 1) |-> 0]]
    /\ gdt = [built |-> FALSE, entries |-> <<"null">>,
              code_selector |-> 0, tss_selector |-> 0]
    /\ idt = [built |-> FALSE, entries |-> << >>]
    /\ cpu = [gdtr |-> FALSE, cs |-> 0, tr |-> 0, idtr |-> FALSE]
    /\ pics = [offset1 |-> PIC_1_OFFSET, offset2 |-> PIC_2_OFFSET,
               initialized |-> FALSE,
               hw1 |-> PowerOnOffsets[1], hw2 |-> PowerOnOffsets[2]]
    /\ kbState = "Start"
    /\ vgaOut = EmptyBag
    /\ serialOut = << >>
    /\ eoiLog = EmptyBag
    /\ exitPort = << >>
    /\ initLog = << >>
    /\ timerFired = 0
    /\ timerDone = 0
    /\ keyFired = 0
    /\ testIdx = 0
    /\ ackCall = NoCall
    /\ writer = NoWriter
    /\ wlog = [calls |-> 0, pending |-> << >>, byte |-> 0]

(***************************************************************************)
(* Bring-up: chronos::init.                                                *)
(***************************************************************************)
\* gdt::init: first use builds TSS and GDT, then lgdt, CS::set_reg, load_tss.
GdtInit ==
    /\ At({"init_gdt"})
    /\ tss' = BuildTSS
    /\ gdt' = BuildGDT
    /\ cpu' = [cpu EXCEPT !.gdtr = TRUE,
                          !.cs = BuildGDT.code_selector,
                          !.tr = BuildGDT.tss_selector]
    /\ initLog' = Append(initLog, "gdt")
    /\ stack' = SetTop([Top EXCEPT !.pc = Succ(Top.pc)])
    /\ UNCHANGED <<units, build, stackStart, intEnabled, locks, idt, pics,
                   kbState, outputs, counters, testIdx>>

\* interrupts::init_idt: first use builds the IDT, then lidt.
InitIdt ==
    /\ At({"init_idt"})
    /\ idt' = BuildIDT
    /\ cpu' = [cpu EXCEPT !.idtr = TRUE]
    /\ initLog' = Append(initLog, "idt")
    /\ stack' = SetTop([Top EXCEPT !.pc = Succ(Top.pc)])
    /\ UNCHANGED <<units, build, stackStart, intEnabled, locks, tss, gdt,
                   pics, kbState, outputs, counters, testIdx>>

\* PICS.lock(): spins until the mutex is free.
PicsLock ==
    /\ At({"init_pics_lock", "t_eoi_lock", "k_eoi_lock"})
    /\ locks["PICS"] = 0
    /\ locks' = [locks EXCEPT !["PICS"] = Depth]
    /\ stack' = SetTop([Top EXCEPT !.pc = Succ(Top.pc)])
    /\ UNCHANGED <<units, build, stackStart, intEnabled, tables, cpu, pics,
                   kbState, outputs, initLog, counters, testIdx>>

\* ChainedPics::initialize under the guard; the guard drops at the end of
\* the statement (mutant: the guard is kept, as if it were bound to a
\* variable that lives on).
PicsInitialize_KeepsGuard ==
    /\ At({"init_pics"})
    /\ pics' = [pics EXCEPT !.initialized = TRUE,
                            !.hw1 = pics.offset1, !.hw2 = pics.offset2]
    /\ initLog' = Append(initLog, "pics")
    /\ stack' = SetTop([Top EXCEPT !.pc = Succ(Top.pc)])
    /\ UNCHANGED <<units, build, stackStart, intEnabled, locks, tables, cpu,
                   kbState, outputs, counters, testIdx>>
PicsInitialize ==
    /\ At({"init_pics"})
    /\ pics' = [pics EXCEPT !.initialized = TRUE,
                            !.hw1 = pics.offset1, !.hw2 = pics.offset2]
    /\ locks' = [locks EXCEPT !["PICS"] = 0]
    /\ initLog' = Append(initLog, "pics")
    /\ stack' = SetTop([Top EXCEPT !.pc = Succ(Top.pc)])
    /\ UNCHANGED <<units, build, stackStart, intEnabled, tables, cpu, kbState,
                   outputs, counters, testIdx>>

\* x86_64::instructions::interrupts::enable (sti).
EnableInterrupts ==
    /\ At({"init_sti"})
    /\ intEnabled' = TRUE
    /\ initLog' = Append(initLog, "sti")
    /\ stack' = SetTop([Top EXCEPT !.pc = Succ(Top.pc)])
    /\ UNCHANGED <<units, build, stackStart, locks, tables, cpu, pics,
                   kbState, outputs, counters, testIdx>>

(***************************************************************************)
(* vga_buffer::_print: WRITER.lock().write_fmt(args).                      *)
(***************************************************************************)
\* WRITER.lock(): spins until the mutex is free; the interrupt flag is left
\* as it is.
VgaLock ==
    /\ At(VgaPcs)
    /\ locks["WRITER"] = 0
    /\ locks' = [locks EXCEPT !["WRITER"] = Depth]
    /\ stack' = SetTop([Top EXCEPT !.call = "vga_write"])
    /\ UNCHANGED <<units, build, stackStart, intEnabled, tables, cpu, pics,
                   kbState, outputs, initLog, counters, testIdx>>

\* write_fmt under the guard; the guard drops at the end of the statement.
VgaWrite ==
    /\ Top.pc \in VgaPcs
    /\ Top.call = "vga_write"
    /\ vgaOut' = vgaOut (+) SetToBag({Text(Top)})
    /\ locks' = [locks EXCEPT !["WRITER"] = 0]
    /\ stack' = SetTop([Top EXCEPT !.pc = Succ(Top.pc), !.call = "",
                                   !.emitted = Top.emitted + 1])
    /\ UNCHANGED <<units, build, stackStart, intEnabled, tables, cpu, pics,
                   kbState, serialOut, eoiLog, exitPort, initLog, counters,
                   testIdx>>

(***************************************************************************)
(* serial::_print: without_interrupts(|| SERIAL1.lock().write_fmt(args)).  *)
(***************************************************************************)
\* without_interrupts: remember the flag, cli if it was set.
SerialCli ==
    /\ At(SerialPcs)
    /\ intEnabled' = FALSE
    /\ stack' = SetTop([Top EXCEPT !.call = "ser_lock",
                                   !.saved = intEnabled])
    /\ UNCHANGED <<units, build, stackStart, locks, tables, cpu, pics,
                   kbState, outputs, initLog, counters, testIdx>>

SerialLock ==
    /\ Top.pc \in SerialPcs
    /\ Top.call = "ser_lock"
    /\ locks["SERIAL1"] = 0
    /\ locks' = [locks EXCEPT !["SERIAL1"] = Depth]
    /\ stack' = SetTop([Top EXCEPT !.call = "ser_write"])
    /\ UNCHANGED <<units, build, stackStart, intEnabled, tables, cpu, pics,
                   kbState, outputs, initLog, counters, testIdx>>

SerialWrite ==
    /\ Top.pc \in SerialPcs
    /\ Top.call = "ser_write"
    /\ serialOut' = Append(serialOut, Text(Top))
    /\ locks' = [locks EXCEPT !["SERIAL1"] = 0]
    /\ stack' = SetTop([Top EXCEPT !.call = "ser_restore"])
    /\ UNCHANGED <<units, build, stackStart, intEnabled, tables, cpu, pics,
                   kbState, vgaOut, eoiLog, exitPort, initLog, counters,
                   testIdx>>

\* without_interrupts: sti again if the flag was set on entry.
SerialRestore ==
    /\ Top.pc \in SerialPcs
    /\ Top.call = "ser_restore"
    /\ intEnabled' = Top.saved
    /\ stack' = SetTop([Top EXCEPT !.pc = Succ(Top.pc), !.call = "",
                                   !.saved = FALSE])
    /\ UNCHANGED <<units, build, stackStart, locks, tables, cpu, pics,
                   kbState, outputs, initLog, counters, testIdx>>

(***************************************************************************)
(* Interrupt and exception delivery.                                       *)
(***************************************************************************)
\* The CPU pushes the interrupted context (with its interrupt flag), clears
\* the flag (interrupt gate) and enters the handler bound to the vector.
Dispatch(stk, v) ==
    Append(stk, NewFrame(IdtEntry(v).handler, HandlerEntry(IdtEntry(v).handler),
                         v, intEnabled, HandlerStack(IdtEntry(v))))

\* IRQ0: the PIT raises the timer line; the PIC turns it into a vector.
FireTimer ==
    /\ intEnabled
    /\ timerFired < MaxTimerFirings
    /\ cpu.idtr
    /\ IdtEntry(pics.hw1 + TIMER_IRQ).handler # "null"
    /\ stack' = Dispatch(stack, pics.hw1 + TIMER_IRQ)
    /\ intEnabled' = FALSE
    /\ timerFired' = timerFired + 1
    /\ UNCHANGED <<units, build, stackStart, locks, tables, cpu, pics,
                   kbState, outputs, initLog, timerDone, keyFired, testIdx>>

\* IRQ1: a byte is waiting in the keyboard controller.
FireKeyboard ==
    /\ intEnabled
    /\ keyFired < MaxKeyFirings
    /\ cpu.idtr
    /\ IdtEntry(pics.hw1 + KEYBOARD_IRQ).handler # "null"
    /\ stack' = Dispatch(stack, pics.hw1 + KEYBOARD_IRQ)
    /\ intEnabled' = FALSE
    /\ keyFired' = keyFired + 1
    /\ UNCHANGED <<units, build, stackStart, locks, tables, cpu, pics,
                   kbState, outputs, initLog, timerFired, timerDone, testIdx>>

\* The CPU fails to deliver an exception: a double fault, at any point once
\* an IDT is loaded, whatever the interrupt flag.
DoubleFault ==
    /\ cpu.idtr
    /\ ~OnStack("double_fault_handler")
    /\ IdtEntry(DOUBLE_FAULT_VECTOR).handler # "null"
    /\ stack' = Dispatch(stack, DOUBLE_FAULT_VECTOR)
    /\ intEnabled' = FALSE
    /\ UNCHANGED <<units, build, stackStart, locks, tables, cpu, pics,
                   kbState, outputs, initLog, counters, testIdx>>

\* End of an extern "x86-interrupt" fn: locals drop (the KEYBOARD guard of
\* the keyboard handler), then iretq restores the interrupted context
\* (mutant: the guard is not dropped, as if it were leaked with mem::forget).
HandlerReturn_KeepsKeyboardGuard ==
    /\ Depth > 1
    /\ At({"ret"})
    /\ stack' = SubSeq(stack, 1, Depth - 1)
    /\ intEnabled' = Top.rflagsIF
    /\ timerDone' = IF Top.ctx = "timer_interrupt_handler"
                    THEN timerDone + 1 ELSE timerDone
    /\ UNCHANGED <<units, build, stackStart, locks, tables, cpu, pics,
                   kbState, outputs, initLog, timerFired, keyFired, testIdx>>
HandlerReturn ==
    /\ Depth > 1
    /\ At({"ret"})
    /\ stack' = SubSeq(stack, 1, Depth - 1)
    /\ intEnabled' = Top.rflagsIF
    /\ locks' = [locks EXCEPT !["KEYBOARD"] = IF @ = Depth THEN 0 ELSE @]
    /\ timerDone' = IF Top.ctx = "timer_interrupt_handler"
                    THEN timerDone + 1 ELSE timerDone
    /\ UNCHANGED <<units, build, stackStart, tables, cpu, pics, kbState,
                   outputs, initLog, timerFired, keyFired, testIdx>>

(***************************************************************************)
(* End of interrupt.                                                       *)
(***************************************************************************)
\* Pic::handles_interrupt for chip 1 and chip 2 of the ChainedPics.
HandlesInterrupt(offset, id) == offset <= id /\ id < offset + PICS_PER_CHIP

\* ChainedPics::notify_end_of_interrupt: the EOI commands sent for id
\* (mutant: chip 1 is signalled before chip 2).
EoiCommands_Pic1First(id) ==
    IF HandlesInterrupt(pics.offset1, id) \/ HandlesInterrupt(pics.offset2, id)
    THEN <<"pic1">> \o
         (IF HandlesInterrupt(pics.offset2, id) THEN <<"pic2">> ELSE << >>)
    ELSE << >>
EoiCommands(id) ==
    IF HandlesInterrupt(pics.offset1, id) \/ HandlesInterrupt(pics.offset2, id)
    THEN (IF HandlesInterrupt(pics.offset2, id) THEN <<"pic2">> ELSE << >>)
         \o <<"pic1">>
    ELSE << >>

\* The vector a handler acknowledges (mutant: both handlers pass the
\* keyboard vector).
EoiVector_AlwaysKeyboard(ctx) == InterruptIndex("Keyboard")
EoiVector(ctx) ==
    IF ctx = "timer_interrupt_handler"
    THEN InterruptIndex("Timer") ELSE InterruptIndex("Keyboard")

\* notify_end_of_interrupt under the PICS guard; the guard drops at the end
\* of the statement (mutant: the handler also unbinds its own vector in the
\* IDT, as a one-shot handler would).
NotifyEoi_UnbindsVector ==
    /\ At({"t_eoi", "k_eoi"})
    /\ eoiLog' = eoiLog (+)
                   SetToBag({[id |-> EoiVector(Top.ctx),
                              cmds |-> EoiCommands(EoiVector(Top.ctx))]})
    /\ locks' = [locks EXCEPT !["PICS"] = 0]
    /\ stack' = SetTop([Top EXCEPT !.pc = Succ(Top.pc),
                                   !.eois = Top.eois + 1])
    /\ idt' = [idt EXCEPT !.entries =
                 [v \in DOMAIN idt.entries \ {EoiVector(Top.ctx)} |->
                     idt.entries[v]]]
    /\ UNCHANGED <<units, build, stackStart, intEnabled, tss, gdt, cpu, pics,
                   kbState, vgaOut, serialOut, exitPort, initLog, counters,
                   testIdx>>
NotifyEoi ==
    /\ At({"t_eoi", "k_eoi"})
    /\ eoiLog' = eoiLog (+)
                   SetToBag({[id |-> EoiVector(Top.ctx),
                              cmds |-> EoiCommands(EoiVector(Top.ctx))]})
    /\ locks' = [locks EXCEPT !["PICS"] = 0]
    /\ stack' = SetTop([Top EXCEPT !.pc = Succ(Top.pc),
                                   !.eois = Top.eois + 1])
    /\ UNCHANGED <<units, build, stackStart, intEnabled, tables, cpu, pics,
                   kbState, vgaOut, serialOut, exitPort, initLog, counters,
                   testIdx>>

(***************************************************************************)
(* Keyboard handler.                                                       *)
(***************************************************************************)
\* ScancodeSet1 key table: codes of the main block.
MapScancode(c) ==
    CASE c = 53 -> "Slash"
      [] c = 59 -> "F1"
      [] OTHER  -> "unknown"

\* ScancodeSet1 key table: codes that follow the 0xE0 prefix.
MapExtendedScancode(c) ==
    CASE c = 53 -> "NumpadDivide"
      [] OTHER  -> "unknown"

KeyResult(code, down) ==
    IF code = "unknown" THEN [kind |-> "Err", code |-> code, down |-> down]
    ELSE [kind |-> "Event", code |-> code, down |-> down]

\* Keyboard::add_byte: the decoder state after the byte, and its result.
AddByte(st, b) ==
    IF st = "Start"
    THEN IF b = 224
         THEN [state |-> "Extended",
               result |-> [kind |-> "None", code |-> "", down |-> FALSE]]
         ELSE [state |-> "Start",
               result |-> IF b >= 128
                          THEN KeyResult(MapScancode(b - 128), FALSE)
                          ELSE KeyResult(MapScancode(b), TRUE)]
    ELSE [state |-> "Start",
          result |-> IF b >= 128
                     THEN KeyResult(MapExtendedScancode(b - 128), FALSE)
                     ELSE KeyResult(MapExtendedScancode(b), TRUE)]

\* Keyboard::process_keyevent: key releases decode to nothing, printable
\* keys to a character, the others to a raw key.
ProcessKeyevent(ev) ==
    IF ~ev.down THEN "NoKey"
    ELSE IF ev.code \in {"Slash", "NumpadDivide"} THEN "Unicode"
    ELSE "RawKey"

\* What one firing does with its byte.
Outcome(st, b) ==
    CASE AddByte(st, b).result.kind = "Err"  -> "Err"
      [] AddByte(st, b).result.kind = "None" -> "Incomplete"
      [] OTHER -> ProcessKeyevent(AddByte(st, b).result)

\* KEYBOARD.lock(): spins until the mutex is free; the guard lives to the
\* end of the handler.
KbLock ==
    /\ At({"k_lock"})
    /\ locks["KEYBOARD"] = 0
    /\ locks' = [locks EXCEPT !["KEYBOARD"] = Depth]
    /\ stack' = SetTop([Top EXCEPT !.pc = Succ(Top.pc)])
    /\ UNCHANGED <<units, build, stackStart, intEnabled, tables, cpu, pics,
                   kbState, outputs, initLog, counters, testIdx>>

\* Where the handler goes after decoding: to the print! of a decoded key,
\* or straight to the acknowledgment (mutants: a firing without a decoded
\* key returns at once; every firing prints).
AfterDecode_EarlyReturn(outcome) ==
    IF outcome \in {"Unicode", "RawKey"} THEN "k_print" ELSE "ret"
AfterDecode_AlwaysPrints(outcome) == "k_print"
AfterDecode(outcome) ==
    IF outcome \in {"Unicode", "RawKey"} THEN "k_print" ELSE "k_eoi_lock"

\* port.read() of 0x60, add_byte, process_keyevent.
KbRead ==
    /\ At({"k_read"})
    /\ \E b \in Scancodes :
         /\ kbState' = AddByte(kbState, b).state
         /\ stack' = SetTop([Top EXCEPT
                               !.pc = AfterDecode(Outcome(kbState, b)),
                               !.reads = Top.reads + 1,
                               !.scancode = b,
                               !.from = kbState,
                               !.outcome = Outcome(kbState, b)])
    /\ UNCHANGED <<units, build, stackStart, intEnabled, locks, tables, cpu,
                   pics, outputs, initLog, counters, testIdx>>

(***************************************************************************)
(* Panics, the test runner and the exit port.                              *)
(***************************************************************************)
\* panic! in double_fault_handler: control passes to the build's
\* #[panic_handler].
Panic ==
    /\ At({"df_panic"})
    /\ stack' = SetTop([Top EXCEPT !.pc = Succ(Top.pc)])
    /\ UNCHANGED <<units, build, stackStart, intEnabled, locks, tables, cpu,
                   pics, kbState, outputs, initLog, counters, testIdx>>

\* The for loop of test_runner: next test, or leave the loop (mutant: the
\* loop is left at once, whatever tests remain).
TestRunnerLoop_LeavesAtOnce ==
    /\ At({"tr_loop"})
    /\ testIdx' = testIdx
    /\ stack' = SetTop([Top EXCEPT !.pc = "tr_exit"])
    /\ UNCHANGED <<units, build, stackStart, intEnabled, locks, tables, cpu,
                   pics, kbState, outputs, initLog, counters>>
TestRunnerLoop ==
    /\ At({"tr_loop"})
    /\ IF testIdx < Len(Tests(build))
       THEN /\ testIdx' = testIdx + 1
            /\ stack' = SetTop([Top EXCEPT !.pc = "run_name"])
       ELSE /\ testIdx' = testIdx
            /\ stack' = SetTop([Top EXCEPT !.pc = "tr_exit"])
    /\ UNCHANGED <<units, build, stackStart, intEnabled, locks, tables, cpu,
                   pics, kbState, outputs, initLog, counters>>

\* self() in Testable::run for test_breakpoint_exception: int3 traps with
\* the return address after the instruction.
RunTest ==
    /\ At({"run_call"})
    /\ Tests(build)[testIdx] = "test_breakpoint_exception"
    /\ cpu.idtr
    /\ IdtEntry(BREAKPOINT_VECTOR).handler # "null"
    /\ stack' = Dispatch(SetTop([Top EXCEPT !.pc = Succ(Top.pc)]),
                         BREAKPOINT_VECTOR)
    /\ intEnabled' = FALSE
    /\ UNCHANGED <<units, build, stackStart, locks, tables, cpu, pics,
                   kbState, outputs, initLog, counters, testIdx>>

\* exit_qemu: one write to port 0xf4; the function returns.
ExitQemu ==
    /\ At({"tr_exit", "tp_exit"})
    /\ exitPort' = Append(exitPort,
                          IF Top.pc = "tr_exit" THEN Success ELSE Failed)
    /\ stack' = SetTop([Top EXCEPT !.pc = Succ(Top.pc)])
    /\ UNCHANGED <<units, build, stackStart, intEnabled, locks, tables, cpu,
                   pics, kbState, vgaOut, serialOut, eoiLog, initLog,
                   counters, testIdx>>

Next ==
    \/ GdtInit
    \/ InitIdt
    \/ PicsLock
    \/ PicsInitialize
    \/ EnableInterrupts
    \/ VgaLock
    \/ VgaWrite
    \/ SerialCli
    \/ SerialLock
    \/ SerialWrite
    \/ SerialRestore
    \/ FireTimer
    \/ FireKeyboard
    \/ DoubleFault
    \/ HandlerReturn
    \/ NotifyEoi
    \/ KbLock
    \/ KbRead
    \/ Panic
    \/ TestRunnerLoop
    \/ RunTest
    \/ ExitQemu

Spec == Init /\ [][Next]_vars

\* The steps the running context takes by itself; the CPU always executes
\* the next instruction of the running context, while interrupts and faults
\* arrive or not as the hardware decides.
ProgramStep ==
    \/ GdtInit \/ InitIdt \/ PicsLock \/ PicsInitialize \/ EnableInterrupts
    \/ VgaLock \/ VgaWrite
    \/ SerialCli \/ SerialLock \/ SerialWrite \/ SerialRestore
    \/ HandlerReturn \/ NotifyEoi \/ KbLock \/ KbRead
    \/ Panic \/ TestRunnerLoop \/ RunTest \/ ExitQemu

FairSpec == Spec /\ WF_vars(ProgramStep)

(***************************************************************************)
(* notify_end_of_interrupt by itself: called with any vector a u8 can      *)
(* hold, on the ChainedPics as PICS constructs it.                         *)
(***************************************************************************)
Vectors == 0..255

NotifyEndOfInterrupt ==
    /\ \E id \in Vectors :
         ackCall' = [id |-> id, sent |-> EoiCommands(id), done |-> TRUE]
    /\ UNCHANGED <<kernel, writer, wlog>>

AckInit == Init

AckNext == NotifyEndOfInterrupt

AckSpec == AckInit /\ [][AckNext]_vars

(***************************************************************************)
(* vga_buffer::Writer by itself: write_byte and write_string called on a   *)
(* Writer over a 25 x 80 buffer.  Rows and columns count from 0; a cell    *)
(* holds the character byte, the color code being the same in every write. *)
(* The field cells records the index of every character write of           *)
(* write_byte.                                                             *)
(***************************************************************************)
Rows == 0..(BUFFER_HEIGHT - 1)
Cols == 0..(BUFFER_WIDTH - 1)

\* What the memory at 0xb8000 may hold when the Writer is constructed: a
\* blank screen, or a screen with a different digit in every row.
Screens ==
    {[row \in Rows |-> [col \in Cols |-> BLANK]],
     [row \in Rows |-> [col \in Cols |-> 48 + (row % 10)]]}

\* A string of n bytes b.
Rep(b, n) == [i \in 1..n |-> b]

\* The bytes passed to write_byte: newline and the letter c.
Bytes == {NEWLINE, 99}

\* The strings passed to write_string: half a line, more than a line, and
\* the two bytes of a non-ASCII character followed by a newline.
Strings == {Rep(97, 40), Rep(98, 81), <<195, 169, NEWLINE>>}

\* Writer::clear_row.
ClearRow(buffer, row) == [buffer EXCEPT ![row] = [col \in Cols |-> BLANK]]

\* Writer::new_line: rows 1 to 24 are copied one row up in ascending
\* order, the last row is cleared and the column reset.
NewLine(w) ==
    [w EXCEPT
       !.buffer = ClearRow([row \in Rows |->
                              IF row + 1 \in Rows THEN w.buffer[row + 1]
                              ELSE w.buffer[row]],
                           BUFFER_HEIGHT - 1),
       !.column_position = 0]

\* A character write at chars[row][col]; an index outside the buffer
\* changes no cell.
WriteCell(w, row, col, byte) ==
    [w EXCEPT !.buffer = IF row \in Rows /\ col \in Cols
                         THEN [w.buffer EXCEPT ![row][col] = byte]
                         ELSE w.buffer,
              !.cells = w.cells \cup {<<row, col>>}]

\* The character write of write_byte at the last row and the current
\* column, and the column increment.
PutByte(w, byte) ==
    [WriteCell(w, BUFFER_HEIGHT - 1, w.column_position, byte)
       EXCEPT !.column_position = w.column_position + 1]

\* Writer::write_byte (mutant: the line is wrapped only when the column is
\* past the width).
WriteByte_WrapsLate(w, byte) ==
    IF byte = NEWLINE THEN NewLine(w)
    ELSE PutByte(IF w.column_position > BUFFER_WIDTH THEN NewLine(w) ELSE w,
                 byte)
WriteByte(w, byte) ==
    IF byte = NEWLINE THEN NewLine(w)
    ELSE PutByte(IF w.column_position >= BUFFER_WIDTH THEN NewLine(w) ELSE w,
                 byte)

\* The match of write_string on one byte: bytes outside the printable
\* range and newline are passed on as 0xfe.
Printable(byte) ==
    IF byte \in FIRST_PRINTABLE..LAST_PRINTABLE \/ byte = NEWLINE
    THEN byte ELSE REPLACEMENT

\* First use of WRITER: the Writer is constructed at column 0 over the
\* screen as it is.
WriterNew ==
    /\ ~writer.built
    /\ \E screen \in Screens :
         writer' = [built |-> TRUE, column_position |-> 0,
                    buffer |-> screen, cells |-> {}]
    /\ UNCHANGED <<kernel, ackCall, wlog>>

\* A call of write_byte from outside write_string.
WriteByteCall ==
    /\ writer.built
    /\ wlog.pending = << >>
    /\ wlog.calls < MaxCalls
    /\ \E byte \in Bytes :
         /\ writer' = WriteByte(writer, byte)
         /\ wlog' = [wlog EXCEPT !.calls = wlog.calls + 1, !.byte = byte]
    /\ UNCHANGED <<kernel, ackCall>>

\* A call of write_string: the for loop starts on the bytes of the string.
WriteStringCall ==
    /\ writer.built
    /\ wlog.pending = << >>
    /\ wlog.calls < MaxCalls
    /\ \E str \in Strings :
         wlog' = [wlog EXCEPT !.calls = wlog.calls + 1, !.pending = str]
    /\ UNCHANGED <<kernel, ackCall, writer>>

\* One turn of the for loop of write_string: the next byte goes to
\* write_byte.
WriteStringLoop ==
    /\ wlog.pending # << >>
    /\ writer' = WriteByte(writer, Printable(Head(wlog.pending)))
    /\ wlog' = [wlog EXCEPT !.pending = Tail(wlog.pending),
                            !.byte = Printable(Head(wlog.pending))]
    /\ UNCHANGED <<kernel, ackCall>>

\* The Writer does not depend on the build or on where the fault stack is.
WriterInit == Init /\ build = "kernel" /\ stackStart = 8192

WriterNext ==
    WriterNew \/ WriteByteCall \/ WriteStringCall \/ WriteStringLoop

WriterSpec == WriterInit /\ [][WriterNext]_vars

(***************************************************************************)
(* Helpers of the properties.                                              *)
(***************************************************************************)
FramesOf(ctx) == {i \in 1..Depth : stack[i].ctx = ctx}

\* The interrupt flag of the context of frame i: the live flag for the
\* running frame, the flag the CPU saved for a preempted one.
FlagOf(i) == IF i = Depth THEN intEnabled ELSE stack[i + 1].rflagsIF

\* The lock a frame is trying to take, "" if none.
WaitsFor(f) ==
    CASE f.pc \in VgaPcs /\ f.call = ""            -> "WRITER"
      [] f.pc \in SerialPcs /\ f.call = "ser_lock" -> "SERIAL1"
      [] f.pc \in {"init_pics_lock", "t_eoi_lock", "k_eoi_lock"} -> "PICS"
      [] f.pc = "k_lock"                           -> "KEYBOARD"
      [] OTHER                                     -> ""

\* Frame i spins on a lock held by a context it preempted.
SpinsOnPreempted(i) ==
    /\ WaitsFor(stack[i]) # ""
    /\ locks[WaitsFor(stack[i])] # 0
    /\ locks[WaitsFor(stack[i])] < i

\* Acknowledgments sent so far with vector v.
AcksOf(v) ==
    BagCardinality([e \in {x \in DOMAIN eoiLog : x.id = v} |-> eoiLog[e]])

InitOrder == <<"gdt", "idt", "pics", "sti">>

(***************************************************************************)
(* C1.  The bring-up steps run at most once each and in the order gdt,     *)
(* idt, pics, sti; once _start is past chronos::init all four have run;    *)
(* the IDT is loaded only with the GDT loaded and CS and TR set, and the   *)
(* interrupt flag is set only with the PICs initialized.                   *)
(***************************************************************************)
C1_BringUpOrder ==
    /\ Len(initLog) <= Len(InitOrder)
    /\ initLog = SubSeq(InitOrder, 1, Len(initLog))
    /\ stack[1].pc \notin (InitPcs \cup {"hello"}) => initLog = InitOrder
    /\ cpu.idtr => /\ cpu.gdtr
                   /\ tss.built
                   /\ cpu.cs = gdt.code_selector
                   /\ cpu.tr = gdt.tss_selector
                   /\ cpu.tr # 0
    /\ \A i \in 1..Depth : FlagOf(i) => pics.initialized

C1_Witness ==
    /\ initLog = InitOrder
    /\ intEnabled
    /\ stack[1].pc \notin (InitPcs \cup {"hello"})

(***************************************************************************)
(* C2.  Whenever _start (non-handler code) holds WRITER or SERIAL1, the    *)
(* interrupt flag of its context is clear, and no IRQ handler sits above   *)
(* a frame that holds an output lock.                                      *)
(***************************************************************************)
C2_OutputLocksMaskInterrupts ==
    \A l \in {"WRITER", "SERIAL1"} :
        locks[l] # 0 =>
            /\ stack[locks[l]].ctx = "_start" => ~FlagOf(locks[l])
            /\ \A i \in 1..Depth :
                 (i > locks[l]) => stack[i].ctx \notin IrqHandlers

(***************************************************************************)
(* C3.  Every timer or keyboard handler invocation runs to completion:     *)
(* whenever an IRQ handler is on the stack, eventually none is (it has     *)
(* returned) or a double fault has taken the CPU away.                     *)
(***************************************************************************)
IrqHandlerRunning == \E i \in 1..Depth : stack[i].ctx \in IrqHandlers

C3_HandlersRunToCompletion ==
    IrqHandlerRunning ~> (~IrqHandlerRunning \/ OnStack("double_fault_handler"))

C7_BreakpointResumes ==
    /\ [](\A i \in FramesOf("breakpoint_handler") :
             /\ stack[i].pc \in {"bp_print", "ret"}
             /\ i = 2
             /\ stack[1].pc = "run_ok" /\ stack[1].call = "")
    /\ []("[ok]" \in {serialOut[k] : k \in 1..Len(serialOut)} =>
             BagIn("EXCEPTION: BREAKPOINT", vgaOut))
    /\ [][(Top.ctx = "breakpoint_handler" /\ Len(stack') < Depth) =>
             /\ Top.emitted = 1
             /\ CopiesIn("EXCEPTION: BREAKPOINT", vgaOut) = 1
             /\ stack' = <<stack[1]>>
             /\ stack'[1].pc = "run_ok"
             /\ intEnabled'
             /\ locks'["SERIAL1"] = 0]_vars
    /\ (OnStack("breakpoint_handler") ~>
           ("[ok]" \in {serialOut[k] : k \in 1..Len(serialOut)}
              \/ OnStack("double_fault_handler")))

C7_Witness ==
    /\ "[ok]" \in {serialOut[k] : k \in 1..Len(serialOut)}
    /\ BagIn("EXCEPTION: BREAKPOINT", vgaOut)
    /\ Depth = 1

(***************************************************************************)
(* C8.  Once double_fault_handler is on the stack it stays the running     *)
(* frame for ever: no step pops it, pushes a handler above it, changes a   *)
(* frame below it or starts a test, and interrupts stay disabled.          *)
(***************************************************************************)
C8_DoubleFaultNeverReturns ==
    /\ [](OnStack("double_fault_handler") =>
             /\ Top.ctx = "double_fault_handler"
             /\ ~intEnabled
             /\ Top.pc # "ret")
    /\ [][OnStack("double_fault_handler") =>
             /\ Len(stack') = Depth
             /\ SubSeq(stack', 1, Depth - 1) = SubSeq(stack, 1, Depth - 1)
             /\ stack'[Depth].ctx = "double_fault_handler"
             /\ testIdx' = testIdx
             /\ Len(exitPort') >= Len(exitPort)
             /\ \A k \in 1..Len(exitPort') : k > Len(exitPort) =>
                    exitPort'[k] = Failed]_vars

C8_Witness ==
    /\ Top.ctx = "double_fault_handler"
    /\ Top.pc \in {"loop", "hlt_loop"}
    /\ Depth = 3

(***************************************************************************)
(* C9.  Whenever the IDT is built, its double-fault entry has a handler    *)
(* and its stack index is 0, the one populated slot of the TSS interrupt   *)
(* stack table, and every bound vector has a handler; a running            *)
(* double-fault handler is on the stack that slot names.                   *)
(***************************************************************************)
C9_DoubleFaultStackIndex ==
    idt.built =>
        /\ IdtEntry(DOUBLE_FAULT_VECTOR).handler = "double_fault_handler"
        /\ StackIndexOf(IdtEntry(DOUBLE_FAULT_VECTOR)) = 0
        /\ {i \in DOMAIN tss.ist : tss.ist[i] # 0}
              = {StackIndexOf(IdtEntry(DOUBLE_FAULT_VECTOR))}
        /\ \A v \in DOMAIN idt.entries : idt.entries[v].handler \in Handlers
        /\ \A i \in FramesOf("double_fault_handler") :
              stack[i].istStack = tss.ist[0] /\ stack[i].istStack # 0

C9_Witness ==
    /\ idt.built
    /\ cpu.idtr
    /\ OnStack("double_fault_handler")

(***************************************************************************)
(* C10.  Chip 1 owns vectors 32..39 and chip 2 owns 40..47, its offset     *)
(* being that of chip 1 plus 8; the ranges are disjoint and above the      *)
(* exception range 0..31; the timer handler runs on vector 32 and the      *)
(* keyboard handler on vector 33, both owned by chip 1.                    *)
(***************************************************************************)
C10_VectorRanges ==
    /\ pics.offset1 = 32
    /\ pics.offset2 = pics.offset1 + 8
    /\ \A v \in 0..63 :
          LET own1 == HandlesInterrupt(pics.offset1, v)
              own2 == HandlesInterrupt(pics.offset2, v)
          IN  /\ own1 <=> (32 <= v /\ v < 40)
              /\ own2 <=> (40 <= v /\ v < 48)
              /\ ~(own1 /\ own2)
              /\ v <= 31 => ~(own1 \/ own2)
    /\ pics.initialized => pics.hw1 = 32 /\ pics.hw2 = 40
    /\ \A i \in FramesOf("timer_interrupt_handler") :
          /\ stack[i].vector = 32
          /\ HandlesInterrupt(pics.offset1, stack[i].vector)
    /\ \A i \in FramesOf("keyboard_interrupt_handler") :
          /\ stack[i].vector = 33
          /\ HandlesInterrupt(pics.offset1, stack[i].vector)
    /\ \A e \in BagToSet(eoiLog) : e.cmds = <<"pic1">>

C10_Witness ==
    /\ pics.initialized
    /\ timerDone >= 1
    /\ \E i \in FramesOf("keyboard_interrupt_handler") : stack[i].pc = "ret"

(***************************************************************************)
(* C11.  In every timer or keyboard handler invocation the end of          *)
(* interrupt comes after all the other work: a timer invocation at or past *)
(* its acknowledgment has written its tick, a keyboard invocation there    *)
(* has read the port, decoded the byte and written the key if one was      *)
(* decoded; an invocation that has acknowledged is at its return, and the  *)
(* only step it takes from there pops its frame, writing nothing, sending  *)
(* nothing and leaving no lock in its name.                                *)
(***************************************************************************)
C11_AckAfterWork ==
    /\ [](\A i \in 1..Depth :
             /\ (stack[i].ctx \in IrqHandlers /\ stack[i].eois >= 1) =>
                   stack[i].pc = "ret"
             /\ (stack[i].ctx = "timer_interrupt_handler"
                   /\ stack[i].pc \in {"t_eoi_lock", "t_eoi", "ret"}) =>
                   stack[i].emitted = 1
             /\ (stack[i].ctx = "keyboard_interrupt_handler"
                   /\ stack[i].pc \in {"k_eoi_lock", "k_eoi", "ret"}) =>
                   /\ stack[i].reads = 1
                   /\ stack[i].outcome # ""
                   /\ stack[i].outcome \in {"Unicode", "RawKey"} =>
                         stack[i].emitted = 1)
    /\ [][(Top.ctx \in IrqHandlers /\ Top.eois >= 1) =>
             /\ UNCHANGED <<outputs, kbState, pics>>
             /\ \/ /\ stack' = SubSeq(stack, 1, Depth - 1)
                   /\ \A l \in LockNames : locks'[l] < Depth
                \/ /\ Len(stack') = Depth + 1
                   /\ stack'[Depth + 1].ctx = "double_fault_handler"
                   /\ SubSeq(stack', 1, Depth) = stack]_vars

\* A keyboard firing that decoded F1 and has printed and acknowledged.
C11_Witness ==
    \E i \in FramesOf("keyboard_interrupt_handler") :
        /\ stack[i].outcome = "RawKey"
        /\ stack[i].emitted = 1
        /\ stack[i].eois = 1
        /\ timerDone >= 1

(***************************************************************************)
(* C12.  At most one context is inside a PICS critical section (the        *)
(* initialize of bring-up, the notify_end_of_interrupt of a handler) and   *)
(* it is the holder of the PICS lock; whenever a timer or keyboard handler *)
(* is on the stack the PICs are initialized and _start is past its         *)
(* initialize statement; a context about to lock PICS finds it free, so    *)
(* none spins on PICS held by the code it interrupted.                     *)
(***************************************************************************)
InsidePics == {i \in 1..Depth : stack[i].pc \in {"init_pics", "t_eoi", "k_eoi"}}

C12_PicsExclusive ==
    /\ Cardinality(InsidePics) <= 1
    /\ InsidePics = (IF locks["PICS"] = 0 THEN {} ELSE {locks["PICS"]})
    /\ IrqHandlerRunning =>
          /\ pics.initialized
          /\ stack[1].pc \notin {"init_gdt", "init_idt", "init_pics_lock",
                                 "init_pics"}
    /\ \A i \in 1..Depth :
          WaitsFor(stack[i]) = "PICS" =>
              /\ locks["PICS"] = 0
              /\ ~SpinsOnPreempted(i)

\* A timer handler inside its acknowledgment, holding PICS, after an
\* earlier invocation acknowledged and returned.
C12_Witness ==
    /\ \E i \in FramesOf("timer_interrupt_handler") :
          stack[i].pc = "t_eoi" /\ locks["PICS"] = i
    /\ timerDone >= 1

(***************************************************************************)
(* C13.  Whenever double_fault_handler is entered its report is eventually *)
(* emitted: in the kernel build the text "EXCEPTION: DOUBLE FAULT" is      *)
(* written through WRITER; in the test builds the report is written        *)
(* through SERIAL1 and Failed is written to the exit port.                 *)
(***************************************************************************)
DoubleFaultReported ==
    IF build = "kernel"
    THEN BagIn("EXCEPTION: DOUBLE FAULT", vgaOut)
    ELSE /\ \E k \in 1..Len(serialOut) :
              serialOut[k] = "Error: EXCEPTION: DOUBLE FAULT"
         /\ \E k \in 1..Len(exitPort) : exitPort[k] = Failed

C13_DoubleFaultReported ==
    OnStack("double_fault_handler") ~> DoubleFaultReported

(***************************************************************************)
(* C14.  Once built, the IDT binds exactly the vectors 3, 8, 32 and 33, to *)
(* the breakpoint, double-fault, timer and keyboard handlers; every other  *)
(* vector is missing, and before it is built all are; the double-fault     *)
(* entry is the only one with a stack index, so the breakpoint, timer and  *)
(* keyboard handlers run on the stack that was active and the double-fault *)
(* handler on the one the TSS names.                                       *)
(***************************************************************************)
C14_BoundVectors ==
    /\ ~idt.built => DOMAIN idt.entries = {}
    /\ idt.built =>
          /\ DOMAIN idt.entries = {3, 8, 32, 33}
          /\ IdtEntry(3).handler = "breakpoint_handler"
          /\ IdtEntry(8).handler = "double_fault_handler"
          /\ IdtEntry(32).handler = "timer_interrupt_handler"
          /\ IdtEntry(33).handler = "keyboard_interrupt_handler"
          /\ \A v \in {0, 2, 4, 7, 9, 13, 14, 31, 34, 40, 47, 128, 255} :
                IdtEntry(v) = Missing
          /\ \A v \in DOMAIN idt.entries : idt.entries[v].ist # 0 <=> v = 8
    /\ \A i \in 1..Depth :
          /\ stack[i].ctx \in Handlers \ {"double_fault_handler"} =>
                stack[i].istStack = 0
          /\ stack[i].ctx = "double_fault_handler" =>
                stack[i].istStack = stackStart + 20480
          /\ stack[i].ctx \in Handlers =>
                IdtEntry(stack[i].vector).handler = stack[i].ctx

\* The double-fault handler on its own stack, above a keyboard handler on
\* the stack of _start, after a timer handler has run and returned.
C14_Witness ==
    /\ idt.built
    /\ OnStack("keyboard_interrupt_handler")
    /\ Top.ctx = "double_fault_handler" /\ Top.istStack # 0
    /\ timerDone >= 1

(***************************************************************************)
(* C15.  No timer or keyboard handler runs before the last step of init:   *)
(* whenever one is on the stack, all four steps have run, the GDT is       *)
(* loaded with CS and TR set, the TSS is built, the IDT is loaded and the  *)
(* PICs are initialized; until _start is past init no interrupt has been   *)
(* delivered and no context has its interrupt flag set before the enable   *)
(* step; the println! before init runs with nothing above it.              *)
(***************************************************************************)
C15_NoHandlerBeforeEnable ==
    /\ IrqHandlerRunning =>
          /\ initLog = InitOrder
          /\ cpu.gdtr /\ cpu.cs = KERNEL_CODE_SELECTOR
          /\ cpu.tr = TSS_SELECTOR /\ tss.built
          /\ cpu.idtr /\ idt.built
          /\ pics.initialized
          /\ stack[1].pc \notin (InitPcs \cup {"hello"})
    /\ stack[1].pc \in (InitPcs \cup {"hello"}) =>
          /\ timerFired = 0 /\ keyFired = 0
          /\ ~FlagOf(1)
    /\ stack[1].pc = "hello" => Depth = 1 /\ ~intEnabled
    /\ \A i \in 1..Depth :
          FlagOf(i) => cpu.gdtr /\ cpu.idtr /\ pics.initialized

\* A keyboard handler preempting the statement that follows init in the
\* test build of the kernel binary, whose hello line was written unpreempted.
C15_Witness ==
    /\ Top.ctx = "keyboard_interrupt_handler"
    /\ stack[1].pc = AfterInit(build)
    /\ initLog = InitOrder
    /\ build = "maintest"
    /\ BagIn("Hello World!", vgaOut)

(***************************************************************************)
(* C16.  Handlers do not nest on locks: every handler context has its      *)
(* interrupt flag clear from entry to return, no timer or keyboard handler *)
(* starts above another handler, and no handler spins on a lock held by a  *)
(* handler below it on the stack.                                          *)
(***************************************************************************)
C16_HandlersNeverNest ==
    /\ \A i \in 2..Depth : ~FlagOf(i)
    /\ \A i \in 2..Depth :
          stack[i].ctx \in IrqHandlers =>
              \A j \in 1..(i - 1) : stack[j].ctx \notin Handlers
    /\ \A i \in 2..Depth :
          SpinsOnPreempted(i) =>
              stack[locks[WaitsFor(stack[i])]].ctx \notin Handlers

(***************************************************************************)
(* C17.  No lock is held by a handler that has returned: the holder of     *)
(* every lock is a frame still on the stack and inside the statements that *)
(* hold it (WRITER and SERIAL1 inside a write, PICS inside initialize or   *)
(* notify_end_of_interrupt, KEYBOARD from the lock statement of the        *)
(* keyboard handler to its end); a handler at its return holds nothing but *)
(* KEYBOARD, and with no keyboard handler on the stack KEYBOARD is free,   *)
(* whatever the returned invocations decoded.                              *)
(***************************************************************************)
C17_GuardsReleased ==
    /\ \A l \in LockNames : locks[l] <= Depth
    /\ locks["WRITER"] # 0 =>
          /\ stack[locks["WRITER"]].pc \in VgaPcs
          /\ stack[locks["WRITER"]].call = "vga_write"
    /\ locks["SERIAL1"] # 0 => stack[locks["SERIAL1"]].call = "ser_write"
    /\ locks["PICS"] # 0 =>
          stack[locks["PICS"]].pc \in {"init_pics", "t_eoi", "k_eoi"}
    /\ locks["KEYBOARD"] # 0 =>
          /\ stack[locks["KEYBOARD"]].ctx = "keyboard_interrupt_handler"
          /\ stack[locks["KEYBOARD"]].pc \in
                {"k_read", "k_print", "k_eoi_lock", "k_eoi", "ret"}
    /\ \A i \in 1..Depth :
          stack[i].pc = "ret" =>
              \A l \in LockNames \ {"KEYBOARD"} : locks[l] # i
    /\ ~OnStack("keyboard_interrupt_handler") => locks["KEYBOARD"] = 0

\* Back in _start after two keyboard firings, one that printed nothing and
\* one that printed a key, and a timer firing: every lock is free.
C17_Witness ==
    /\ Depth = 1
    /\ keyFired = 2
    /\ AcksOf(33) = 2
    /\ CopiesIn("Unicode", vgaOut) + CopiesIn("RawKey", vgaOut) = 1
    /\ timerDone >= 1
    /\ \A l \in LockNames : locks[l] = 0

(***************************************************************************)
(* C18.  The TSS, the GDT and the IDT are write-once: no step changes a    *)
(* table that is already built, no step taken while a handler is on the    *)
(* stack or entering or leaving it changes a table or a table register,    *)
(* and no step of _start after init does.                                  *)
(***************************************************************************)
C18_TablesWriteOnce ==
    [][/\ tss.built => tss' = tss
       /\ gdt.built => gdt' = gdt
       /\ idt.built => idt' = idt
       /\ (Depth > 1 \/ Len(stack') > 1) => UNCHANGED <<tables, cpu>>
       /\ stack[1].pc \notin (InitPcs \cup {"hello"}) =>
             UNCHANGED <<tables, cpu>>]_vars

\* The tables as init built them, after a timer handler, a keyboard
\* handler and the entry of the double-fault handler.
C18_Witness ==
    /\ tss.built /\ gdt.built /\ idt.built
    /\ timerDone >= 1
    /\ AcksOf(33) >= 1
    /\ Top.ctx = "double_fault_handler"
    /\ Top.pc \in {"loop", "hlt_loop"}
    /\ DOMAIN idt.entries = {3, 8, 32, 33}
    /\ gdt.tss_selector = TSS_SELECTOR

(***************************************************************************)
(* C19.  The interrupt stack table of the TSS has seven slots; once built, *)
(* slot 0 holds the end of the reserved stack buffer, its start plus       *)
(* 4096 * 5 = 20480 bytes, and the slots 1..6 hold zero, so exactly one    *)
(* slot is populated; before it is built all seven are zero.               *)
(***************************************************************************)
C19_IstSlot ==
    /\ DOMAIN tss.ist = 0..6
    /\ STACK_SIZE = 20480
    /\ tss.built =>
          /\ tss.ist[0] = stackStart + 20480
          /\ tss.ist[0] - stackStart = 4096 * 5
          /\ \A i \in 1..6 : tss.ist[i] = 0
          /\ Cardinality({i \in DOMAIN tss.ist : tss.ist[i] # 0}) = 1
    /\ ~tss.built => \A i \in 0..6 : tss.ist[i] = 0

\* The TSS built over the buffer at 65536 and in use: a double-fault
\* handler runs on the stack that ends at 86016.
C19_Witness ==
    /\ tss.built
    /\ stackStart = 65536
    /\ tss.ist[0] = 86016
    /\ cpu.tr = TSS_SELECTOR
    /\ \E i \in FramesOf("double_fault_handler") : stack[i].istStack = 86016

(***************************************************************************)
(* C20.  The exit port receives Success only in a test build, at most      *)
(* once, from test_runner after every test of the list was started and     *)
(* reported "[ok]", with no panic under way and nothing written to the     *)
(* port before; once a panic is under way no test is started, no "[ok]"    *)
(* is reported and the only value written is Failed, after which the       *)
(* panic handler sits in its halt loop for ever.                           *)
(***************************************************************************)
OkCount == Cardinality({k \in 1..Len(serialOut) : serialOut[k] = "[ok]"})

C21_AckRouting ==
    /\ EoiVector("timer_interrupt_handler") = 32
    /\ EoiVector("keyboard_interrupt_handler") = 33
    /\ ackCall.done =>
          /\ (40 <= ackCall.id /\ ackCall.id < 48) =>
                ackCall.sent = <<"pic2", "pic1">>
          /\ (32 <= ackCall.id /\ ackCall.id < 40) =>
                ackCall.sent = <<"pic1">>
          /\ (ackCall.id < 32 \/ ackCall.id >= 48) =>
                ackCall.sent = << >>

\* A call with the last vector of chip 2.
C21_Witness ==
    /\ ackCall.done
    /\ ackCall.id = 47
    /\ ackCall.sent = <<"pic2", "pic1">>

(***************************************************************************)
(* C22.  After any calls of write_byte and write_string the column is in   *)
(* 0..80 and every character write of write_byte went to row 24 and a      *)
(* column in 0..79, inside the 25 x 80 buffer; a byte other than newline   *)
(* written at column 80 finds every row from 1 to 24 moved one row up and  *)
(* row 24 blank but for the byte itself at column 0, and leaves the column *)
(* at 1; a newline moves the rows the same way, blanks row 24 and leaves   *)
(* the column at 0.                                                        *)
(***************************************************************************)
C22_WriterInBounds ==
    /\ [](writer.built =>
             /\ writer.column_position \in 0..80
             /\ \A cell \in writer.cells :
                   cell[1] = 24 /\ 0 <= cell[2] /\ cell[2] < 80
             /\ DOMAIN writer.buffer = 0..24
             /\ \A r \in 0..24 : DOMAIN writer.buffer[r] = 0..79)
    /\ [][(writer.built /\ writer' # writer) =>
             /\ (writer.column_position = 80 /\ wlog'.byte # 10) =>
                   /\ \A r \in 1..24 :
                         writer'.buffer[r - 1] = writer.buffer[r]
                   /\ \A c \in 1..79 : writer'.buffer[24][c] = 32
                   /\ writer'.buffer[24][0] = wlog'.byte
                   /\ writer'.column_position = 1
                   /\ writer'.cells = writer.cells \cup {<<24, 0>>}
             /\ (writer.column_position < 80 /\ wlog'.byte # 10) =>
                   /\ writer'.buffer =
                         [writer.buffer EXCEPT
                            ![24][writer.column_position] = wlog'.byte]
                   /\ writer'.column_position = writer.column_position + 1
             /\ wlog'.byte = 10 =>
                   /\ \A r \in 1..24 :
                         writer'.buffer[r - 1] = writer.buffer[r]
                   /\ \A c \in 0..79 : writer'.buffer[24][c] = 32
                   /\ writer'.column_position = 0
                   /\ writer'.cells = writer.cells]_vars

\* Two strings of 40 letters filled the last row; the byte written next
\* scrolled it to row 23 and sits at column 0 of row 24.
C22_Witness ==
    /\ writer.built
    /\ wlog.calls = 3
    /\ writer.column_position = 1
    /\ writer.buffer[24][0] = 99
    /\ writer.buffer[24][1] = 32
    /\ \A c \in 0..79 : writer.buffer[23][c] = 97
    /\ <<24, 79>> \in writer.cells

====
